---- MODULE Spec2Model ----
(***************************************************************************)
(* Model of the two exercises of alx-backend-storage:                      *)
(*   0x01-NoSQL/8-all.py        list_all(mongo_collection)                 *)
(*   0x02-redis_basic/exercise.py   count_calls, call_history, Cache       *)
(*                                                                         *)
(* The key-value store is one keyspace `db` mapping byte-string keys to a  *)
(* string value or a list value.  Byte strings are sequences of byte       *)
(* values 0..255, Python text is a sequence of code points, and every      *)
(* conversion the client and the converters perform (utf-8, repr, decimal  *)
(* formatting and parsing) is computed on those sequences.  One call of    *)
(* store is four store commands (incr, rpush, set, rpush); each command    *)
(* is one atomic step, because the store is an external service whose      *)
(* state other clients can read between two commands.  The store is        *)
(* assumed reachable: a command raises only when the client refuses its    *)
(* argument or the key holds a value of the wrong kind.                    *)
(***************************************************************************)
EXTENDS Integers, Sequences, FiniteSets, TLC

\* ------------------------------------------------------------------ bounds
\* Number of store invocations between two constructions.
MaxCalls == 2
\* Number of distinct identifiers uuid4 can produce.
NumUUIDs == 2
\* Number of documents a collection holds at most.
MaxDocs == 3

\* ------------------------------------------------------------ byte strings
Digit(d) == 48 + d

HexDigit(d) == IF d < 10 THEN 48 + d ELSE 87 + d

IsDigit(b) == b >= 48 /\ b <= 57

IsSurrogate(cp) == cp >= 55296 /\ cp <= 57343

\* Decimal digits of a natural number, most significant first.
RECURSIVE NatToAscii(_)
NatToAscii(n) ==
    IF n < 10 THEN <<Digit(n)>> ELSE NatToAscii(n \div 10) \o <<Digit(n % 10)>>

\* repr(n) of a Python int.
IntRepr(n) == IF n < 0 THEN <<45>> \o NatToAscii(-n) ELSE NatToAscii(n)

\* repr(f) of a Python float with one decimal place, f = tenths / 10.
FloatRepr(tenths) ==
    LET a == IF tenths < 0 THEN -tenths ELSE tenths
        body == NatToAscii(a \div 10) \o <<46, Digit(a % 10)>>
    IN  IF tenths < 0 THEN <<45>> \o body ELSE body

RECURSIVE AllDigits(_)
AllDigits(s) == IF s = <<>> THEN TRUE ELSE IsDigit(Head(s)) /\ AllDigits(Tail(s))

RECURSIVE DigitsToNat(_, _)
DigitsToNat(s, acc) ==
    IF s = <<>> THEN acc ELSE DigitsToNat(Tail(s), acc * 10 + (Head(s) - 48))

HasSign(s) == s # <<>> /\ Head(s) \in {43, 45}

Unsigned(s) == IF HasSign(s) THEN Tail(s) ELSE s

Signed(s, n) == IF HasSign(s) /\ Head(s) = 45 THEN -n ELSE n

\* int(b) accepts an optional sign followed by decimal digits.
IsIntLiteral(s) == Unsigned(s) # <<>> /\ AllDigits(Unsigned(s))

ParseInt(s) == Signed(s, DigitsToNat(Unsigned(s), 0))

\* float(b) for the literals of the model: an integer literal, or digits, a
\* point and one digit.
IsFloatLiteral(s) ==
    LET u == Unsigned(s)
    IN  \/ IsIntLiteral(s)
        \/ /\ Len(u) >= 3
           /\ u[Len(u) - 1] = 46
           /\ IsDigit(u[Len(u)])
           /\ AllDigits(SubSeq(u, 1, Len(u) - 2))

ParseFloatTenths(s) ==
    LET u == Unsigned(s)
    IN  IF IsIntLiteral(s)
        THEN 10 * ParseInt(s)
        ELSE Signed(s, 10 * DigitsToNat(SubSeq(u, 1, Len(u) - 2), 0) + (u[Len(u)] - 48))

\* str.encode('utf-8') of one code point below 65536.
Utf8Char(cp) ==
    IF cp < 128 THEN <<cp>>
    ELSE IF cp < 2048 THEN <<192 + (cp \div 64), 128 + (cp % 64)>>
    ELSE <<224 + (cp \div 4096), 128 + ((cp \div 64) % 64), 128 + (cp % 64)>>

RECURSIVE Utf8Encodable(_)
Utf8Encodable(s) ==
    IF s = <<>> THEN TRUE ELSE ~IsSurrogate(Head(s)) /\ Utf8Encodable(Tail(s))

\* utf-8 leaves ASCII text as it is (each code point is its own byte), so
\* the recursion stops at the first all-ASCII remainder.
IsAscii(s) == \A i \in 1..Len(s) : s[i] < 128

RECURSIVE Utf8Encode(_)
Utf8Encode(s) ==
    IF IsAscii(s) THEN s ELSE Utf8Char(Head(s)) \o Utf8Encode(Tail(s))

IsCont(b) == b >= 128 /\ b <= 191

\* Length of the utf-8 sequence at the head of b, 0 when it is malformed.
Utf8Width(b) ==
    IF b[1] < 128 THEN 1
    ELSE IF b[1] >= 194 /\ b[1] <= 223 /\ Len(b) >= 2 /\ IsCont(b[2]) THEN 2
    ELSE IF /\ b[1] >= 224 /\ b[1] <= 239 /\ Len(b) >= 3 /\ IsCont(b[2]) /\ IsCont(b[3])
            /\ (b[1] - 224) * 4096 + (b[2] - 128) * 64 >= 2048
            /\ ~IsSurrogate((b[1] - 224) * 4096 + (b[2] - 128) * 64 + (b[3] - 128))
         THEN 3
    ELSE 0

Utf8Head(b) ==
    IF Utf8Width(b) = 1 THEN b[1]
    ELSE IF Utf8Width(b) = 2 THEN (b[1] - 192) * 64 + (b[2] - 128)
    ELSE (b[1] - 224) * 4096 + (b[2] - 128) * 64 + (b[3] - 128)

RECURSIVE Utf8Valid(_)
Utf8Valid(b) ==
    IF IsAscii(b) THEN TRUE
    ELSE Utf8Width(b) > 0 /\ Utf8Valid(SubSeq(b, Utf8Width(b) + 1, Len(b)))

\* bytes.decode('utf-8') of a valid byte string.
RECURSIVE Utf8Decode(_)
Utf8Decode(b) ==
    IF IsAscii(b) THEN b
    ELSE <<Utf8Head(b)>> \o Utf8Decode(SubSeq(b, Utf8Width(b) + 1, Len(b)))

\* ---------------------------------------------------------- Python values
PyNone == [type |-> "None", val |-> <<>>]

PyBytes(b) == [type |-> "bytes", val |-> b]

PyStr(s) == [type |-> "str", val |-> s]

PyInt(n) == [type |-> "int", val |-> n]

\* A float with one decimal place, given in tenths.
PyFloat(tenths) == [type |-> "float", val |-> tenths]

Hex4(cp) ==
    <<HexDigit(cp \div 4096), HexDigit((cp \div 256) % 16),
      HexDigit((cp \div 16) % 16), HexDigit(cp % 16)>>

\* repr of text and of bytes, for values without quotes, backslashes and
\* control characters: text keeps its printable code points and escapes lone
\* surrogates as \udXXX; bytes keep printable ASCII and escape the rest as \xhh.
RECURSIVE StrReprBody(_)
StrReprBody(s) ==
    IF s = <<>> THEN <<>>
    ELSE (IF IsSurrogate(Head(s)) THEN <<92, 117>> \o Hex4(Head(s)) ELSE <<Head(s)>>)
         \o StrReprBody(Tail(s))

RECURSIVE BytesReprBody(_)
BytesReprBody(b) ==
    IF b = <<>> THEN <<>>
    ELSE (IF Head(b) >= 32 /\ Head(b) <= 126
          THEN <<Head(b)>>
          ELSE <<92, 120, HexDigit(Head(b) \div 16), HexDigit(Head(b) % 16)>>)
         \o BytesReprBody(Tail(b))

\* repr(v), as text (a sequence of code points).
PyRepr(v) ==
    CASE v.type = "str" -> <<39>> \o StrReprBody(v.val) \o <<39>>
      [] v.type = "bytes" -> <<98, 39>> \o BytesReprBody(v.val) \o <<39>>
      [] v.type = "int" -> IntRepr(v.val)
      [] v.type = "float" -> FloatRepr(v.val)
      [] OTHER -> <<78, 111, 110, 101>>

\* str(args) of the one-element tuple of positional arguments: "(<repr>,)".
StrArgs(args) == <<40>> \o PyRepr(args[1]) \o <<44, 41>>

\* What the store client sends for a value: bytes as they are, numbers as
\* their repr, text utf-8 encoded; text that utf-8 cannot encode is refused.
ClientEncodable(v) ==
    CASE v.type = "bytes" -> TRUE
      [] v.type \in {"int", "float"} -> TRUE
      [] v.type = "str" -> Utf8Encodable(v.val)
      [] OTHER -> FALSE

\* Mutant of ClientEncode: text sent one byte per code point (latin-1).
ClientEncodeLatin1(v) ==
    CASE v.type = "bytes" -> v.val
      [] v.type \in {"int", "float"} -> Utf8Encode(PyRepr(v))
      [] OTHER -> v.val

ClientEncode(v) ==
    CASE v.type = "bytes" -> v.val
      [] v.type \in {"int", "float"} -> Utf8Encode(PyRepr(v))
      [] OTHER -> Utf8Encode(v.val)

EncodeError(v) == IF v.type = "str" THEN "UnicodeEncodeError" ELSE "DataError"

\* ------------------------------------------------------ the key-value store
EmptyDB == [k \in {} |-> [kind |-> "string", val |-> <<>>]]

Exists(d, k) == k \in DOMAIN d

Put(d, k, entry) == [x \in (DOMAIN d) \cup {k} |-> IF x = k THEN entry ELSE d[x]]

IsString(d, k) == Exists(d, k) /\ d[k].kind = "string"

IsList(d, k) == Exists(d, k) /\ d[k].kind = "list"

\* SET k v
RedisSet(d, k, bytes) == Put(d, k, [kind |-> "string", val |-> bytes])

\* GET k: the bytes, or None when the key is absent.
RedisGetFails(d, k) == IsList(d, k)

RedisGet(d, k) == IF Exists(d, k) THEN PyBytes(d[k].val) ELSE PyNone

\* INCR k: an absent key counts from zero.
RedisIncrFails(d, k) == IsList(d, k) \/ (IsString(d, k) /\ ~IsIntLiteral(d[k].val))

RedisIncr(d, k) ==
    Put(d, k, [kind |-> "string",
               val |-> IntRepr((IF Exists(d, k) THEN ParseInt(d[k].val) ELSE 0) + 1)])

\* RPUSH k v: an absent key is an empty list.
RedisRpushFails(d, k) == IsString(d, k)

RedisRpush(d, k, bytes) ==
    Put(d, k, [kind |-> "list",
               val |-> (IF Exists(d, k) THEN d[k].val ELSE <<>>) \o <<bytes>>])

\* LRANGE k 0 -1
RedisLrangeFails(d, k) == IsString(d, k)

RedisLrange(d, k) == IF Exists(d, k) THEN d[k].val ELSE <<>>

\* FLUSHDB
RedisFlushdb(d) == EmptyDB

\* --------------------------------------------------------------- the keys
\* method.__qualname__ of Cache.store: "Cache.store"
QualName == <<67, 97, 99, 104, 101, 46, 115, 116, 111, 114, 101>>

\* f"{method.__qualname__}:inputs"
InputKey == QualName \o <<58, 105, 110, 112, 117, 116, 115>>

\* f"{method.__qualname__}:outputs"
OutputKey == QualName \o <<58, 111, 117, 116, 112, 117, 116, 115>>

\* str(uuid.uuid4()): "00000000-0000-4000-8000-00000000000<i>", the i-th of the
\* identifiers the generator can draw.
UuidStr(i) ==
    <<48, 48, 48, 48, 48, 48, 48, 48, 45, 48, 48, 48, 48, 45, 52, 48, 48, 48, 45,
      56, 48, 48, 48, 45, 48, 48, 48, 48, 48, 48, 48, 48, 48, 48, 48>> \o <<HexDigit(i)>>

UUIDs == {UuidStr(i) : i \in 1..NumUUIDs}

\* ------------------------------------------------------------------ state
VARIABLES
    db,       \* the key-value store: key |-> [kind, val]
    pc,       \* where the running store call stands: idle, history, body, outputs
    args,     \* positional arguments of the running store call
    output,   \* key generated by the running store call
    ret,      \* outcome of the operation completed last: [op, kind, val]
    stdout,   \* lines printed by the operation completed last
    calls,    \* history: the store invocations since the last construction
    cleared,  \* history: how many keys the operation completed last removed
    coll,     \* list_all: the collection handle passed in
    listed    \* list_all: [called, val], the value returned

vars == <<db, pc, args, output, ret, stdout, calls, cleared, coll, listed>>

cacheVars == <<db, pc, args, output, ret, stdout, calls, cleared>>

\* Outcome of a call: the value returned, or the exception raised.
Return(v) == [kind |-> "return", val |-> v]

Raise(exc) == [kind |-> "raise", val |-> [type |-> exc, val |-> <<>>]]

Running == [kind |-> "running", val |-> PyNone]

\* The operation completed last, with the key and converter it was given.
Done(op, k, fn, outcome) ==
    [op |-> op, key |-> k, fn |-> fn, kind |-> outcome.kind, val |-> outcome.val]

\* Values passed to store: b"foo" and 123 of TEST_CASES, the text "bár"
\* (two bytes for its second character), the float 1.5, and text holding a
\* lone surrogate, which utf-8 cannot encode.
Values ==
    { PyBytes(<<102, 111, 111>>), PyInt(123), PyStr(<<98, 225, 114>>),
      PyFloat(15), PyStr(<<56448>>) }

\* Converters passed to get itself; int and the utf-8 decoder are passed by
\* get_int and get_str.
Converters == {"None", "float"}

\* Keys passed to get: every identifier, and the counter key.
ProbeKeys == UUIDs \cup {QualName}

\* ------------------------------------------------------------ Cache: store
\* Mutant of CountCalls: the counter is set to one instead of incremented.
CountCallsSet(d) == RedisSet(d, Utf8Encode(QualName), IntRepr(1))

\* count_calls.wrapper: self._redis.incr(key)
CountCalls(d) == RedisIncr(d, Utf8Encode(QualName))

\* Mutant of RecordInput: the input record is pushed to the output history.
RecordInputWrongKey(d, a) == RedisRpush(d, Utf8Encode(OutputKey), Utf8Encode(StrArgs(a)))

\* call_history.wrapper: self._redis.rpush(input_key, str(args))
RecordInput(d, a) == RedisRpush(d, Utf8Encode(InputKey), Utf8Encode(StrArgs(a)))

\* Mutant of WriteValue: key and data swapped in the call of set.
WriteValueSwapped(d, k, data) == RedisSet(d, ClientEncode(data), Utf8Encode(k))

\* Cache.store: self._redis.set(key, data)
WriteValue(d, k, data) == RedisSet(d, Utf8Encode(k), ClientEncode(data))

\* call_history.wrapper: self._redis.rpush(output_key, str(output))
RecordOutput(d, out) == RedisRpush(d, Utf8Encode(OutputKey), Utf8Encode(out))

Invocation(data) == [data |-> data, status |-> "running", key |-> <<>>]

Finish(cs, status) == [cs EXCEPT ![Len(cs)].status = status]

\* store(data) is called; count_calls.wrapper increments the counter and
\* passes the call on to call_history.wrapper.
StoreCall(data) ==
    /\ pc = "idle"
    /\ Len(calls) < MaxCalls
    /\ stdout' = <<>>
    /\ cleared' = 0
    /\ IF RedisIncrFails(db, Utf8Encode(QualName))
       THEN /\ ret' = Done("store", <<>>, "None", Raise("ResponseError"))
            /\ calls' = Append(calls, [Invocation(data) EXCEPT !.status = "raised"])
            /\ pc' = "idle"
            /\ args' = <<>>
            /\ db' = db
       ELSE /\ db' = CountCalls(db)
            /\ calls' = Append(calls, Invocation(data))
            /\ pc' = "history"
            /\ args' = <<data>>
            /\ ret' = Done("store", <<>>, "None", Running)
    /\ UNCHANGED <<output, coll, listed>>

\* call_history.wrapper appends str(args) to the input history.
HistoryInputs ==
    /\ pc = "history"
    /\ IF RedisRpushFails(db, Utf8Encode(InputKey))
       THEN /\ ret' = Done("store", <<>>, "None", Raise("ResponseError"))
            /\ calls' = Finish(calls, "raised")
            /\ pc' = "idle"
            /\ args' = <<>>
            /\ db' = db
       ELSE /\ db' = RecordInput(db, args)
            /\ pc' = "body"
            /\ UNCHANGED <<ret, calls, args>>
    /\ UNCHANGED <<output, stdout, cleared, coll, listed>>

\* Cache.store: key = str(uuid.uuid4()); self._redis.set(key, data).  The
\* client raises, before anything is sent, for data it cannot encode.
StoreBody ==
    /\ pc = "body"
    /\ \E u \in UUIDs :
         IF ClientEncodable(args[1])
         THEN /\ db' = WriteValue(db, u, args[1])
              /\ output' = u
              /\ pc' = "outputs"
              /\ calls' = [calls EXCEPT ![Len(calls)].key = u]
              /\ UNCHANGED <<ret, args>>
         ELSE /\ ret' = Done("store", <<>>, "None", Raise(EncodeError(args[1])))
              /\ calls' = Finish(calls, "raised")
              /\ pc' = "idle"
              /\ args' = <<>>
              /\ UNCHANGED <<db, output>>
    /\ UNCHANGED <<stdout, cleared, coll, listed>>

\* call_history.wrapper appends str(output) to the output history and
\* returns output.
HistoryOutputs ==
    /\ pc = "outputs"
    /\ IF RedisRpushFails(db, Utf8Encode(OutputKey))
       THEN /\ ret' = Done("store", <<>>, "None", Raise("ResponseError"))
            /\ calls' = Finish(calls, "raised")
            /\ db' = db
       ELSE /\ db' = RecordOutput(db, output)
            /\ ret' = Done("store", <<>>, "None", Return(PyStr(output)))
            /\ calls' = Finish(calls, "returned")
    /\ pc' = "idle"
    /\ args' = <<>>
    /\ output' = <<>>
    /\ UNCHANGED <<stdout, cleared, coll, listed>>

\* -------------------------------------------------------------- Cache: get
\* fn(value) for the converters int, float and lambda d: d.decode('utf-8').
Convert(fn, b) ==
    CASE fn = "int" ->
           IF IsIntLiteral(b) THEN Return(PyInt(ParseInt(b)))
           ELSE Raise("ValueError")
      [] fn = "float" ->
           IF IsFloatLiteral(b) THEN Return(PyFloat(ParseFloatTenths(b)))
           ELSE Raise("ValueError")
      [] OTHER ->
           IF Utf8Valid(b) THEN Return(PyStr(Utf8Decode(b)))
           ELSE Raise("UnicodeDecodeError")

\* Mutant of CacheGet: the converter is applied before the test for None.
CacheGetConvertFirst(d, k, fn) ==
    IF RedisGetFails(d, Utf8Encode(k)) THEN Raise("ResponseError")
    ELSE LET value == RedisGet(d, Utf8Encode(k))
         IN  IF fn # "None" THEN Convert(fn, value.val)
             ELSE Return(value)

\* Cache.get(key, fn)
CacheGet(d, k, fn) ==
    IF RedisGetFails(d, Utf8Encode(k)) THEN Raise("ResponseError")
    ELSE LET value == RedisGet(d, Utf8Encode(k))
         IN  IF value = PyNone THEN Return(PyNone)
             ELSE IF fn # "None" THEN Convert(fn, value.val)
             ELSE Return(value)

\* Cache.get_str(key)
CacheGetStr(d, k) == CacheGet(d, k, "decode")

\* Cache.get_int(key)
CacheGetInt(d, k) == CacheGet(d, k, "int")

Get(k, fn) ==
    /\ pc = "idle"
    /\ ret' = Done("get", k, fn, CacheGet(db, k, fn))
    /\ stdout' = <<>>
    /\ cleared' = 0
    /\ UNCHANGED <<db, pc, args, output, calls, coll, listed>>

GetStr(k) ==
    /\ pc = "idle"
    /\ ret' = Done("get_str", k, "decode", CacheGetStr(db, k))
    /\ stdout' = <<>>
    /\ cleared' = 0
    /\ UNCHANGED <<db, pc, args, output, calls, coll, listed>>

GetInt(k) ==
    /\ pc = "idle"
    /\ ret' = Done("get_int", k, "int", CacheGetInt(db, k))
    /\ stdout' = <<>>
    /\ cleared' = 0
    /\ UNCHANGED <<db, pc, args, output, calls, coll, listed>>

\* ----------------------------------------------------------- Cache: replay
\* zip(inputs, outputs) stops at the end of the shorter list.
Min(a, b) == IF a < b THEN a ELSE b

\* f"{method_name} was called {len(inputs)} times:"
ReplayHeader(n) ==
    QualName \o <<32, 119, 97, 115, 32, 99, 97, 108, 108, 101, 100, 32>>
             \o NatToAscii(n) \o <<32, 116, 105, 109, 101, 115, 58>>

\* f"{method_name}(*{input_str}) -> {output_str}"
ReplayLine(input_bytes, output_bytes) ==
    QualName \o <<40, 42>> \o Utf8Decode(input_bytes)
             \o <<41, 32, 45, 62, 32>> \o Utf8Decode(output_bytes)

\* Mutant of ReplayPrints: the header counts the output records.
ReplayPrintsCountOutputs(inputs, outputs) ==
    <<ReplayHeader(Len(outputs))>>
    \o [i \in 1..Min(Len(inputs), Len(outputs)) |-> ReplayLine(inputs[i], outputs[i])]

\* Cache.replay(Cache.store): what it prints, from what lrange returned.
ReplayPrints(inputs, outputs) ==
    <<ReplayHeader(Len(inputs))>>
    \o [i \in 1..Min(Len(inputs), Len(outputs)) |-> ReplayLine(inputs[i], outputs[i])]

Replay ==
    /\ pc = "idle"
    /\ IF \/ RedisLrangeFails(db, Utf8Encode(InputKey))
          \/ RedisLrangeFails(db, Utf8Encode(OutputKey))
       THEN /\ ret' = Done("replay", <<>>, "None", Raise("ResponseError"))
            /\ stdout' = <<>>
       ELSE /\ ret' = Done("replay", <<>>, "None", Return(PyNone))
            /\ stdout' = ReplayPrints(RedisLrange(db, Utf8Encode(InputKey)),
                                      RedisLrange(db, Utf8Encode(OutputKey)))
    /\ cleared' = 0
    /\ UNCHANGED <<db, pc, args, output, calls, coll, listed>>

\* --------------------------------------------------------- Cache: __init__
\* Mutant of CacheInit: the store is not flushed.
CacheInitNoFlush(d) == d

\* Cache.__init__: self._redis = redis.Redis(); self._redis.flushdb().  Every
\* Cache connects to the same store, so a later construction clears what
\* an earlier instance wrote.
CacheInit(d) == RedisFlushdb(d)

Construct ==
    /\ pc = "idle"
    /\ db' = CacheInit(db)
    /\ cleared' = Cardinality(DOMAIN db)
    /\ calls' = <<>>
    /\ ret' = Done("init", <<>>, "None", Return(PyNone))
    /\ stdout' = <<>>
    /\ UNCHANGED <<pc, args, output, coll, listed>>

\* ---------------------------------------------------------------- list_all
Docs ==
    { [id |-> 1, name |-> "a"], [id |-> 2, name |-> "b"],
      [id |-> 3, name |-> "c"], [id |-> 4, name |-> "a"] }

NoCollection == [present |-> FALSE, docs |-> <<>>]

\* A collection handle: the documents in the order the store returns them.
Collection(docs) == [present |-> TRUE, docs |-> docs]

Handles ==
    {NoCollection} \cup {Collection(s) : s \in UNION {[1..n -> Docs] : n \in 0..MaxDocs}}

\* Mutant of Find: the cursor is limited to the first document.
FindFirst(c) == [docs |-> SubSeq(c.docs, 1, Min(1, Len(c.docs))), pos |-> 1]

\* mongo_collection.find(): a cursor over every document, no filter.
Find(c) == [docs |-> c.docs, pos |-> 1]

\* list(cursor): the documents the cursor yields, until it is exhausted.
RECURSIVE ListOf(_)
ListOf(cursor) ==
    IF cursor.pos > Len(cursor.docs) THEN <<>>
    ELSE <<cursor.docs[cursor.pos]>> \o ListOf([cursor EXCEPT !.pos = @ + 1])

list_all(mongo_collection) ==
    IF mongo_collection # NoCollection THEN ListOf(Find(mongo_collection)) ELSE <<>>

ListAll ==
    /\ ~listed.called
    /\ listed' = [called |-> TRUE, val |-> list_all(coll)]
    /\ UNCHANGED <<coll, cacheVars>>

\* ---------------------------------------------------------- specifications
CacheInitState ==
    /\ db = EmptyDB
    /\ pc = "idle"
    /\ args = <<>>
    /\ output = <<>>
    /\ ret = Done("init", <<>>, "None", Return(PyNone))
    /\ stdout = <<>>
    /\ calls = <<>>
    /\ cleared = 0

\* The state after cache = Cache().
Init ==
    /\ CacheInitState
    /\ coll = NoCollection
    /\ listed = [called |-> FALSE, val |-> <<>>]

Next ==
    \/ \E data \in Values : StoreCall(data)
    \/ HistoryInputs
    \/ StoreBody
    \/ HistoryOutputs
    \/ \E k \in ProbeKeys, fn \in Converters : Get(k, fn)
    \/ \E k \in ProbeKeys : GetStr(k)
    \/ \E k \in ProbeKeys : GetInt(k)
    \/ Replay
    \/ Construct

Spec == Init /\ [][Next]_vars

\* list_all applied to every handle within the bounds.
InitList ==
    /\ CacheInitState
    /\ coll \in Handles
    /\ listed = [called |-> FALSE, val |-> <<>>]

NextList == ListAll

SpecList == InitList /\ [][NextList]_vars

\* ------------------------------------------------- what a reader observes
\* The invocation counter of store; an absent counter reads as zero.
Counter ==
    IF Exists(db, Utf8Encode(QualName)) THEN ParseInt(db[Utf8Encode(QualName)].val) ELSE 0

\* The input and output histories of store, as lrange returns them.
Inputs == RedisLrange(db, Utf8Encode(InputKey))

Outputs == RedisLrange(db, Utf8Encode(OutputKey))

NamedKeys == {QualName, InputKey, OutputKey}

ReadOps == {"get", "get_str", "get_int"}

Returned(i) == calls[i].status = "returned"

\* The calls that returned a key, in call order.
ReturnedCalls == SelectSeq(calls, LAMBDA c : c.status = "returned")

\* The i-th call is the last one so far that wrote under its identifier.
LastWriter(i) == \A j \in (i + 1)..Len(calls) : calls[j].key # calls[i].key

\* The read completed last used the converter that fits the type of v.
Appropriate(v) ==
    \/ v.type = "bytes" /\ ret.op = "get" /\ ret.fn = "None"
    \/ v.type = "str" /\ ret.op = "get_str"
    \/ v.type = "int" /\ ret.op = "get_int"
    \/ v.type = "float" /\ ret.op = "get" /\ ret.fn = "float"

ReadBack(v) == ret.kind = "return" /\ ret.val.type = v.type /\ ret.val.val = v.val

\* ------------------------------------------------------------------ claims

\* C1 as stated: a read of a key that store(v) returned, with the converter
\* for v's type, returns v, whatever store calls came in between.
C1_RoundTripAlways ==
    \A i \in 1..Len(calls) :
        (/\ Returned(i)
         /\ ret.op \in ReadOps
         /\ ret.key = calls[i].key
         /\ Appropriate(calls[i].data)) => ReadBack(calls[i].data)

\* C1, amended: a read of a key that store(v) returned, with the converter
\* for v's type, returns v, whatever store calls came in between, provided
\* none of those calls generated the same identifier.
C1_RoundTrip ==
    \A i \in 1..Len(calls) :
        (/\ Returned(i)
         /\ LastWriter(i)
         /\ ret.op \in ReadOps
         /\ ret.key = calls[i].key
         /\ Appropriate(calls[i].data)) => ReadBack(calls[i].data)

\* A text value is read back by get_str with another store call in between.
C1_Witness ==
    /\ Len(calls) = 2
    /\ Returned(1) /\ Returned(2)
    /\ calls[1].key # calls[2].key
    /\ calls[1].data = PyStr(<<98, 225, 114>>)
    /\ ret.op = "get_str"
    /\ ret.key = calls[1].key
    /\ ReadBack(calls[1].data)

\* C2: the counter of store equals the number of store invocations made
\* since the last construction, in every state: each invocation adds one,
\* and get, get_str, get_int and replay leave it as it is.
C2_CounterCountsCalls == Counter = Len(calls)

\* Two invocations, one of which raised, then the counter read by get_int.
C2_Witness ==
    /\ Len(calls) = 2
    /\ calls[1].status = "raised"
    /\ ret.op = "get_int"
    /\ ret.key = QualName
    /\ ret.val = PyInt(2)

\* C3 as stated: between invocations both histories have one record per
\* call, the i-th input record is str(args) of the i-th call and the i-th
\* output record is the key the i-th call returned.
C3_HistoryMatchesCalls ==
    pc = "idle" =>
        /\ Len(Inputs) = Len(calls)
        /\ Len(Outputs) = Len(calls)
        /\ \A i \in 1..Len(calls) :
               /\ Inputs[i] = Utf8Encode(StrArgs(<<calls[i].data>>))
               /\ Outputs[i] = Utf8Encode(calls[i].key)

\* C4 as stated, at the points where replay reads the histories (between
\* invocations): the input and output histories have the same length.
C4_EqualLengthWhenRead == pc = "idle" => Len(Inputs) = Len(Outputs)

\* C5: get on a key the store does not hold returns None, with or without a
\* converter, and so do get_str and get_int; none of them raises.
C5_MissingKeyIsNone ==
    (ret.op \in ReadOps /\ ~Exists(db, Utf8Encode(ret.key)))
        => (ret.kind = "return" /\ ret.val = PyNone)

\* get with a converter on an identifier never written, the store not empty.
C5_Witness ==
    /\ ret.op = "get"
    /\ ret.fn = "float"
    /\ ret.key \in UUIDs
    /\ ~Exists(db, Utf8Encode(ret.key))
    /\ \E i \in 1..Len(calls) : Returned(i)
    /\ ret.val = PyNone

\* C6: right after a construction the store holds no key at all: no entry,
\* no counter (it reads zero) and empty histories.
C6_ConstructClears ==
    ret.op = "init" =>
        /\ DOMAIN db = {}
        /\ Counter = 0
        /\ Inputs = <<>>
        /\ Outputs = <<>>
        /\ \A k \in UUIDs : ~Exists(db, Utf8Encode(k))

\* A construction that found two entries, the counter and both histories.
C6_Witness == ret.op = "init" /\ cleared = 5

\* C7 as stated: every key a store call wrote under keeps mapping to the
\* value of that call.
C7_EntryNeverMutated ==
    \A i \in 1..Len(calls) :
        calls[i].key # <<>> =>
            /\ IsString(db, Utf8Encode(calls[i].key))
            /\ db[Utf8Encode(calls[i].key)].val = ClientEncode(calls[i].data)

\* C7, amended: the identifier a store call writes under is never the
\* counter or a history key, an entry is never deleted between two
\* constructions, and a key keeps mapping to the value it was stored with
\* unless a later store call generated the same identifier (the identifier
\* is not checked against the keys of the store).
C7_EntryKeptUnlessRegenerated ==
    \A i \in 1..Len(calls) :
        calls[i].key # <<>> =>
            /\ calls[i].key \notin NamedKeys
            /\ IsString(db, Utf8Encode(calls[i].key))
            /\ LastWriter(i) =>
                   db[Utf8Encode(calls[i].key)].val = ClientEncode(calls[i].data)

\* Two entries under different identifiers, then a replay.
C7_Witness ==
    /\ Len(calls) = 2
    /\ Returned(1) /\ Returned(2)
    /\ calls[1].key # calls[2].key
    /\ calls[1].data # calls[2].data
    /\ ret.op = "replay"

\* C8: list_all returns the empty list for no handle, and for a handle the
\* documents of the collection, all of them, in the order of the store.
C8_ListAll ==
    listed.called =>
        IF coll.present
        THEN /\ Len(listed.val) = Len(coll.docs)
             /\ \A i \in 1..Len(coll.docs) : listed.val[i] = coll.docs[i]
        ELSE listed.val = <<>>

\* A collection that holds the same document twice, listed.
C8_Witness ==
    /\ listed.called
    /\ coll.present
    /\ Len(coll.docs) = 3
    /\ coll.docs[1] = coll.docs[3]
    /\ coll.docs[1] # coll.docs[2]
    /\ Len(listed.val) = 3

\* What replay printed: the header with the call count, then one line per
\* pair, the i-th pairing the i-th input record with the i-th output record.
C9_Printed ==
    (ret.op = "replay" /\ ret.kind = "return") =>
        /\ stdout[1] = ReplayHeader(Len(calls))
        /\ stdout[1] = ReplayHeader(Counter)
        /\ Len(stdout) = 1 + Min(Len(Inputs), Len(Outputs))
        /\ Len(stdout) = 1 + Len(ReturnedCalls)
        /\ \A i \in 1..Len(ReturnedCalls) :
               stdout[i + 1] =
                   QualName \o <<40, 42>> \o StrArgs(<<calls[i].data>>)
                            \o <<41, 32, 45, 62, 32>> \o ReturnedCalls[i].key

\* C9: replay prints the header with the call count and min(len(inputs),
\* len(outputs)) lines, pairing the records by position and leaving out the
\* surplus of the longer list, and it changes nothing in the store.
C9_Replay == []C9_Printed /\ [][ret'.op = "replay" => db' = db]_vars

\* A replay after a call that raised and a call that returned: two input
\* records, one output record, one line printed.
C9_Witness ==
    /\ ret.op = "replay"
    /\ Len(Inputs) = 2
    /\ Len(Outputs) = 1
    /\ Len(stdout) = 2
    /\ calls[1].status = "raised"

\* The keys whose value differs between the two states of a step.
Changed ==
    {k \in (DOMAIN db) \cup (DOMAIN db') :
        ~(k \in DOMAIN db /\ k \in DOMAIN db' /\ db'[k] = db[k])}

\* Where a store invocation stands, by what it has done so far.
C10_Progress ==
    /\ pc = "history" => (Counter = Len(calls) /\ Len(Inputs) = Len(calls) - 1)
    /\ pc \in {"body", "outputs"} =>
           /\ Counter = Len(calls)
           /\ Len(Inputs) = Len(calls)
           /\ Inputs[Len(calls)] = Utf8Encode(StrArgs(args))
    /\ pc = "outputs" =>
           /\ IsString(db, Utf8Encode(output))
           /\ db[Utf8Encode(output)].val = ClientEncode(args[1])
    /\ Len(Outputs) = Len(ReturnedCalls)
    /\ (ret.op = "store" /\ ret.kind = "raise") =>
           /\ ret.val.type = EncodeError(calls[Len(calls)].data)
           /\ calls[Len(calls)].key = <<>>
           /\ Counter = Len(calls)
           /\ Len(Inputs) = Len(calls)
           /\ Inputs[Len(calls)] = Utf8Encode(StrArgs(<<calls[Len(calls)].data>>))
           /\ Len(Outputs) < Len(calls)

\* Each step of a store invocation changes one key, in the order counter,
\* input history, entry, output history; a write that raises changes none.
C10_Steps ==
    /\ (pc = "idle" /\ pc' # "idle") => (pc' = "history" /\ Changed = {Utf8Encode(QualName)})
    /\ pc = "history" => (pc' = "body" /\ Changed = {Utf8Encode(InputKey)})
    /\ pc = "body" =>
           \/ pc' = "outputs" /\ Changed \subseteq {Utf8Encode(output')}
           \/ pc' = "idle" /\ ret'.kind = "raise" /\ Changed = {}
    /\ pc = "outputs" =>
           /\ pc' = "idle"
           /\ Changed = {Utf8Encode(OutputKey)}
           /\ ret'.kind = "return"
           /\ ret'.val = PyStr(output)

\* C10: a store invocation increments the counter, appends the input
\* record, writes the value and appends the output record, in that order;
\* when the write raises, the caller gets that exception, no output record
\* is appended and no key is returned, and the counter increment and the
\* input record of the invocation stay in the store.
C10_OrderAndFailure == []C10_Progress /\ [][C10_Steps]_vars

\* A store of text that utf-8 cannot encode raised after an earlier call
\* returned: two input records, one output record.
C10_Witness ==
    /\ ret.op = "store"
    /\ ret.kind = "raise"
    /\ ret.val.type = "UnicodeEncodeError"
    /\ Len(calls) = 2
    /\ Returned(1)
    /\ Len(Inputs) = 2
    /\ Len(Outputs) = 1

====
